---- MODULE Spec2Model ----
(***************************************************************************)
(* gluesql-conntrack-storage: the predicate compiler (get_filter /         *)
(* parse_filter), the row projector (Column::add_field) and the scan of    *)
(* the Connections table behind a mutex (Conntrack::scan_data_inner).      *)
(***************************************************************************)
EXTENDS Integers, Sequences, FiniteSets, TLC

VARIABLES
    expr,           \* get_filter: the selection expression (sqlparser Expr)
    calls,          \* get_filter: the builder setter calls process made, in order
    result,         \* get_filter / parse_filter: the returned Result, None before the call
    sql,            \* parse_filter: the sql text, a sequence of characters
    parser_invoked, \* parse_filter: whether Parser::new(..).parse_expr() ran
    flow,           \* projection: the Flow handed to the closure of scan_data_inner
    row,            \* projection: the DataRow::Vec built for flow, None before
    pc,             \* scan: per caller, where it is inside fetch_schema / scan_data
    table_name,     \* scan: per caller, the table_name argument of the current call
    mutex,          \* scan: the holder of self.0 (Mutex<conntrack::Conntrack>), or NoThread
    flows,          \* scan: per caller, the flows of its dump not yet iterated
    rows,           \* scan: per caller, the rows its RowIter has yielded so far
    dump_calls,     \* scan: per caller, the number of dump() calls of the current scan
    ret             \* scan: per caller, what its call returned, None while it runs

vars == <<expr, calls, result, sql, parser_invoked, flow, row,
          pc, table_name, mutex, flows, rows, dump_calls, ret>>

filter_vars == <<expr, calls, result, sql, parser_invoked>>
project_vars == <<flow, row>>
scan_vars == <<pc, table_name, mutex, flows, rows, dump_calls, ret>>

(***************************************************************************)
(* Option<T>                                                               *)
(***************************************************************************)
None == [some |-> FALSE]
Some(x) == [some |-> TRUE, val |-> x]

(***************************************************************************)
(* The column catalog (utils.rs)                                           *)
(***************************************************************************)
all_variants ==
    << "Id", "OrigSrc", "OrigDst", "OrigProtoNum", "OrigProtoSrcPort",
       "OrigProtoDstPort", "ReplySrc", "ReplyDst", "ReplyProtoNum",
       "ReplyProtoSrcPort", "ReplyProtoDstPort" >>

name(c) ==
    CASE c = "Id" -> "id"
      [] c = "OrigSrc" -> "orig_ipv4_src"
      [] c = "OrigDst" -> "orig_ipv4_dst"
      [] c = "OrigProtoNum" -> "orig_l4_proto"
      [] c = "OrigProtoSrcPort" -> "orig_l4_src_port"
      [] c = "OrigProtoDstPort" -> "orig_l4_dst_port"
      [] c = "ReplySrc" -> "reply_ipv4_src"
      [] c = "ReplyDst" -> "reply_ipv4_dst"
      [] c = "ReplyProtoNum" -> "reply_l4_proto"
      [] c = "ReplyProtoSrcPort" -> "reply_l4_src_port"
      [] c = "ReplyProtoDstPort" -> "reply_l4_dst_port"

data_type(c) ==
    CASE c = "Id" -> "Uint32"
      [] c \in {"OrigSrc", "OrigDst", "ReplySrc", "ReplyDst"} -> "Inet"
      [] c \in {"OrigProtoNum", "ReplyProtoNum"} -> "Uint8"
      [] c \in {"OrigProtoSrcPort", "OrigProtoDstPort",
                "ReplyProtoSrcPort", "ReplyProtoDstPort"} -> "Uint16"

def(c) == [name |-> name(c), data_type |-> data_type(c), nullable |-> TRUE]

(***************************************************************************)
(* sqlparser values and expressions, as get_filter reads them              *)
(***************************************************************************)
\* Value::SingleQuotedString(s): s is kept as its dot-separated decimal parts,
\* "127.0.0.1" is <<127, 0, 0, 1>>.
SingleQuotedString(s) == [v |-> "SingleQuotedString", s |-> s]
Number(n) == [v |-> "Number", n |-> n]

Identifier(id) == [kind |-> "Identifier", value |-> id]
Value(v) == [kind |-> "Value", value |-> v]
Nested(e) == [kind |-> "Nested", expr |-> e]
BinaryOp(l, op, r) == [kind |-> "BinaryOp", left |-> l, op |-> op, right |-> r]

\* Ipv4Addr::new(a, b, c, d) as its 32 bits
Ipv4Addr(a, b, c, d) == ((a * 256 + b) * 256 + c) * 256 + d

\* <str as FromStr for Ipv4Addr>::parse: four decimal parts, each an octet
parse_ipv4(s) ==
    IF Len(s) = 4 /\ \A i \in 1..4 : s[i] \in 0..255
    THEN Some(Ipv4Addr(s[1], s[2], s[3], s[4]))
    ELSE None

to_ipv4_addr(value) ==
    IF value.v = "SingleQuotedString" THEN parse_ipv4(value.s) ELSE None

\* variant of to_u8 that takes the range of a u16
to_u8_wide(value) ==
    IF value.v = "Number" /\ value.n \in 0..65535 THEN Some(value.n) ELSE None

to_u8(value) ==
    IF value.v = "Number" /\ value.n \in 0..255 THEN Some(value.n) ELSE None

to_u16(value) ==
    IF value.v = "Number" /\ value.n \in 0..65535 THEN Some(value.n) ELSE None

\* IpProto: From<u8> and u8: From<IpProto>; Tcp is protocol 6
IpProto_from_u8(n) ==
    IF n = 6 THEN [proto |-> "Tcp"] ELSE [proto |-> "Other", n |-> n]

u8_from_IpProto(p) ==
    IF p.proto = "Tcp" THEN 6 ELSE p.n

(***************************************************************************)
(* get_filter (lib.rs)                                                     *)
(***************************************************************************)
\* columns: HashMap<&'static str, Column> collected from all_variants; a later
\* variant of the same name replaces an earlier one.
columns ==
    [n \in {name(all_variants[i]) : i \in DOMAIN all_variants} |->
        LET last == CHOOSE i \in DOMAIN all_variants :
                        /\ name(all_variants[i]) = n
                        /\ \A j \in DOMAIN all_variants :
                              name(all_variants[j]) = n => j <= i
        IN all_variants[last]]

columns_get(id) == IF id \in DOMAIN columns THEN Some(columns[id]) ELSE None

\* variant of arms that sets ReplySrc on orig_filter
arms_swapped ==
    << [column |-> "OrigSrc", convert |-> "to_ipv4_addr", filter |-> "orig_filter", set |-> "ipv4_src"],
       [column |-> "OrigDst", convert |-> "to_ipv4_addr", filter |-> "orig_filter", set |-> "ipv4_dst"],
       [column |-> "OrigProtoNum", convert |-> "to_u8", filter |-> "orig_filter", set |-> "l4_proto"],
       [column |-> "OrigProtoSrcPort", convert |-> "to_u16", filter |-> "orig_filter", set |-> "l4_src_port"],
       [column |-> "OrigProtoDstPort", convert |-> "to_u16", filter |-> "orig_filter", set |-> "l4_dst_port"],
       [column |-> "ReplySrc", convert |-> "to_ipv4_addr", filter |-> "orig_filter", set |-> "ipv4_src"],
       [column |-> "ReplyDst", convert |-> "to_ipv4_addr", filter |-> "reply_filter", set |-> "ipv4_dst"],
       [column |-> "ReplyProtoNum", convert |-> "to_u8", filter |-> "reply_filter", set |-> "l4_proto"],
       [column |-> "ReplyProtoSrcPort", convert |-> "to_u16", filter |-> "reply_filter", set |-> "l4_src_port"],
       [column |-> "ReplyProtoDstPort", convert |-> "to_u16", filter |-> "reply_filter", set |-> "l4_dst_port"] >>

\* the arms of do_match!, in order
arms ==
    << [column |-> "OrigSrc", convert |-> "to_ipv4_addr", filter |-> "orig_filter", set |-> "ipv4_src"],
       [column |-> "OrigDst", convert |-> "to_ipv4_addr", filter |-> "orig_filter", set |-> "ipv4_dst"],
       [column |-> "OrigProtoNum", convert |-> "to_u8", filter |-> "orig_filter", set |-> "l4_proto"],
       [column |-> "OrigProtoSrcPort", convert |-> "to_u16", filter |-> "orig_filter", set |-> "l4_src_port"],
       [column |-> "OrigProtoDstPort", convert |-> "to_u16", filter |-> "orig_filter", set |-> "l4_dst_port"],
       [column |-> "ReplySrc", convert |-> "to_ipv4_addr", filter |-> "reply_filter", set |-> "ipv4_src"],
       [column |-> "ReplyDst", convert |-> "to_ipv4_addr", filter |-> "reply_filter", set |-> "ipv4_dst"],
       [column |-> "ReplyProtoNum", convert |-> "to_u8", filter |-> "reply_filter", set |-> "l4_proto"],
       [column |-> "ReplyProtoSrcPort", convert |-> "to_u16", filter |-> "reply_filter", set |-> "l4_src_port"],
       [column |-> "ReplyProtoDstPort", convert |-> "to_u16", filter |-> "reply_filter", set |-> "l4_dst_port"] >>

convert(fn, value) ==
    CASE fn = "to_ipv4_addr" -> to_ipv4_addr(value)
      [] fn = "to_u8" -> to_u8(value)
      [] fn = "to_u16" -> to_u16(value)

\* do_match!: the first arm of the column; a value that converts is one setter
\* call, anything else only warns.
do_match(column, value) ==
    LET hit == {i \in DOMAIN arms : column.some /\ arms[i].column = column.val}
    IN  IF hit = {} THEN << >>
        ELSE LET a == arms[CHOOSE i \in hit : \A j \in hit : i <= j]
                 x == convert(a.convert, value)
             IN  IF x.some
                 THEN << [filter |-> a.filter, set |-> a.set, value |-> x.val] >>
                 ELSE << >>

\* variant of process that recurses into the left branch of an AND only
RECURSIVE process_left_only(_)
process_left_only(e) ==
    IF e.kind = "BinaryOp"
    THEN CASE e.op = "And" -> process_left_only(e.left)
           [] e.op = "Eq" ->
                IF e.left.kind = "Identifier" /\ e.right.kind = "Value"
                THEN do_match(columns_get(e.left.value), e.right.value)
                ELSE << >>
           [] OTHER -> << >>
    ELSE << >>

\* variant of process that recurses into OR as it does into AND
RECURSIVE process_or_as_and(_)
process_or_as_and(e) ==
    IF e.kind = "BinaryOp"
    THEN CASE e.op \in {"And", "Or"} -> process_or_as_and(e.left) \o process_or_as_and(e.right)
           [] e.op = "Eq" ->
                IF e.left.kind = "Identifier" /\ e.right.kind = "Value"
                THEN do_match(columns_get(e.left.value), e.right.value)
                ELSE << >>
           [] OTHER -> << >>
    ELSE << >>

\* process: the setter calls made on orig_filter and reply_filter, in order
RECURSIVE process(_)
process(e) ==
    IF e.kind = "BinaryOp"
    THEN CASE e.op = "And" -> process(e.left) \o process(e.right)
           [] e.op = "Eq" ->
                IF e.left.kind = "Identifier" /\ e.right.kind = "Value"
                THEN do_match(columns_get(e.left.value), e.right.value)
                ELSE << >>
           [] OTHER -> << >>
    ELSE << >>

\* DirFilterBuilder::default()
DirFilterBuilder_default ==
    [ipv4_src |-> None, ipv4_dst |-> None, l4_proto |-> None,
     l4_src_port |-> None, l4_dst_port |-> None]

\* one setter call on a builder; l4_proto takes impl Into<IpProto>
set_value(b, call) ==
    [b EXCEPT ![call.set] =
        Some(IF call.set = "l4_proto" THEN IpProto_from_u8(call.value) ELSE call.value)]

RECURSIVE apply_calls(_, _, _)
apply_calls(b, cs, which) ==
    IF cs = << >> THEN b
    ELSE apply_calls(IF Head(cs).filter = which THEN set_value(b, Head(cs)) ELSE b,
                     Tail(cs), which)

\* Filter::default()
Filter_default == [orig |-> DirFilterBuilder_default, reply |-> DirFilterBuilder_default]

Ok(x) == [ok |-> TRUE, value |-> x]
Err(e) == [ok |-> FALSE, error |-> e]

\* DirFilterBuilder::build: every field of the builder is optional
DirFilterBuilder_build(b) == Ok(b)

\* variant of build_filter that hands each built filter to the other direction
build_filter_swapped(cs) ==
    Ok([orig |-> apply_calls(DirFilterBuilder_default, cs, "reply_filter"),
        reply |-> apply_calls(DirFilterBuilder_default, cs, "orig_filter")])

\* Filter::default().with_orig(orig_filter.build()?).with_reply(reply_filter.build()?)
build_filter(cs) ==
    LET orig == DirFilterBuilder_build(apply_calls(DirFilterBuilder_default, cs, "orig_filter"))
        reply == DirFilterBuilder_build(apply_calls(DirFilterBuilder_default, cs, "reply_filter"))
    IN  IF ~orig.ok THEN Err("DirFilterBuilder")
        ELSE IF ~reply.ok THEN Err("DirFilterBuilder")
        ELSE Ok([orig |-> orig.value, reply |-> reply.value])

get_filter(selection) == build_filter(process(selection))

(***************************************************************************)
(* The expressions handed to get_filter                                    *)
(***************************************************************************)
MaxLeaves == 3

S1 == SingleQuotedString(<<127, 0, 0, 1>>)
S2 == SingleQuotedString(<<127, 0, 0, 2>>)
SBad == SingleQuotedString(<<127, 0, 0, 256>>)
N1 == Number(1)
N2 == Number(2)
N5 == Number(5)
N6 == Number(6)
N256 == Number(256)
N65536 == Number(65536)

CatalogNames == {name(all_variants[i]) : i \in DOMAIN all_variants}
Idents == CatalogNames \cup {"foo"}

\* the literals an equality over identifier id is given
LiteralsFor(id) ==
    IF id \in {"orig_ipv4_src", "orig_ipv4_dst", "reply_ipv4_src", "reply_ipv4_dst"}
    THEN {S1, S2, SBad, N1}
    ELSE IF id \in {"orig_l4_proto", "reply_l4_proto"}
    THEN {N1, N6, N256, S1}
    ELSE IF id = "id" THEN {N5}
    ELSE IF id = "foo" THEN {N1}
    ELSE {N1, N2, N65536, S1}

EqLeaves == {BinaryOp(Identifier(id), "Eq", Value(v)) : <<id, v>> \in
                {p \in Idents \X {S1, S2, SBad, N1, N2, N5, N6, N256, N65536} :
                    p[2] \in LiteralsFor(p[1])}}

OddLeaves ==
    { BinaryOp(Identifier("orig_l4_src_port"), "Gt", Value(N1)),
      BinaryOp(Value(N1), "Eq", Identifier("orig_l4_src_port")),
      BinaryOp(Identifier("orig_ipv4_src"), "Eq", Identifier("orig_ipv4_dst")),
      Identifier("orig_ipv4_src"),
      Nested(BinaryOp(Identifier("orig_l4_proto"), "Eq", Value(N6))) }

Leaves == EqLeaves \cup OddLeaves

\* the leaves an expression is extended by
CoreLeaves ==
    { BinaryOp(Identifier("orig_ipv4_src"), "Eq", Value(S1)),
      BinaryOp(Identifier("orig_ipv4_src"), "Eq", Value(S2)),
      BinaryOp(Identifier("orig_l4_proto"), "Eq", Value(N6)),
      BinaryOp(Identifier("reply_l4_dst_port"), "Eq", Value(N2)),
      BinaryOp(Identifier("orig_l4_proto"), "Eq", Value(N256)),
      BinaryOp(Identifier("orig_l4_src_port"), "Gt", Value(N1)) }

RECURSIVE LeafCount(_)
LeafCount(e) ==
    IF e.kind = "BinaryOp" /\ e.op \in {"And", "Or"}
    THEN LeafCount(e.left) + LeafCount(e.right)
    ELSE 1

Eq(id, v) == BinaryOp(Identifier(id), "Eq", Value(v))

\* the predicate of tests::parse_filter, as the parser associates it
TestExpr ==
    BinaryOp(BinaryOp(BinaryOp(BinaryOp(BinaryOp(
        Eq("id", N5), "And",
        Eq("orig_ipv4_src", S1)), "And",
        Eq("orig_ipv4_dst", S2)), "And",
        Eq("orig_l4_proto", N6)), "And",
        Eq("orig_l4_src_port", N1)), "And",
        Eq("orig_l4_dst_port", N2))

InitFilter ==
    /\ expr \in Leaves \cup {TestExpr}
    /\ calls = << >>
    /\ result = None
    /\ sql = << >>
    /\ parser_invoked = FALSE
    /\ flow = None /\ row = None
    /\ pc = << >> /\ table_name = << >> /\ mutex = 0 /\ flows = << >>
    /\ rows = << >> /\ dump_calls = << >> /\ ret = << >>

AndRight ==
    /\ result = None
    /\ LeafCount(expr) < MaxLeaves
    /\ \E l \in CoreLeaves : expr' = BinaryOp(expr, "And", l)
    /\ UNCHANGED <<calls, result, sql, parser_invoked, project_vars, scan_vars>>

AndLeft ==
    /\ result = None
    /\ LeafCount(expr) < MaxLeaves
    /\ \E l \in CoreLeaves : expr' = BinaryOp(l, "And", expr)
    /\ UNCHANGED <<calls, result, sql, parser_invoked, project_vars, scan_vars>>

OrRight ==
    /\ result = None
    /\ LeafCount(expr) < MaxLeaves
    /\ \E l \in CoreLeaves : expr' = BinaryOp(expr, "Or", l)
    /\ UNCHANGED <<calls, result, sql, parser_invoked, project_vars, scan_vars>>

GetFilter ==
    /\ result = None
    /\ calls' = process(expr)
    /\ result' = Some(get_filter(expr))
    /\ UNCHANGED <<expr, sql, parser_invoked, project_vars, scan_vars>>

NextFilter == AndRight \/ AndLeft \/ OrRight \/ GetFilter

SpecFilter == InitFilter /\ [][NextFilter]_vars

(***************************************************************************)
(* The row projector (utils.rs, Column::add_field) and the closure of      *)
(* scan_data_inner that builds one row                                     *)
(***************************************************************************)
\* flow.as_ref().and_then(|x| x.src), and the like: one level of the path
and_then_src(t) == IF t.some THEN t.val.src ELSE None
and_then_dst(t) == IF t.some THEN t.val.dst ELSE None
and_then_proto(t) == IF t.some THEN t.val.proto ELSE None
and_then_number(p) == IF p.some THEN p.val.number ELSE None
and_then_src_port(p) == IF p.some THEN p.val.src_port ELSE None
and_then_dst_port(p) == IF p.some THEN p.val.dst_port ELSE None
\* .map(u8::from)
map_u8_from(n) == IF n.some THEN Some(u8_from_IpProto(n.val)) ELSE None

Null == [t |-> "Null"]
Inet(x) == [t |-> "Inet", v |-> x]
U8(x) == [t |-> "U8", v |-> x]
U16(x) == [t |-> "U16", v |-> x]
U32(x) == [t |-> "U32", v |-> x]

\* value.map(convert).unwrap_or(Value::Null), pushed
add_ip_addr(value, fields) == Append(fields, IF value.some THEN Inet(value.val) ELSE Null)
add_u8(value, fields) == Append(fields, IF value.some THEN U8(value.val) ELSE Null)
add_u16(value, fields) == Append(fields, IF value.some THEN U16(value.val) ELSE Null)
add_u32(value, fields) == Append(fields, IF value.some THEN U32(value.val) ELSE Null)

\* variant of bound_tuple that binds the origin tuple for every column
bound_tuple_origin_only(c, f) == f.origin

\* the tuple the match binds to `flow` for column c
bound_tuple(c, f) ==
    IF c \in {"OrigSrc", "OrigDst", "OrigProtoNum", "OrigProtoSrcPort", "OrigProtoDstPort"}
    THEN f.origin
    ELSE f.reply

add_field(c, f, fields) ==
    CASE c = "Id" -> add_u32(f.id, fields)
      [] c \in {"OrigSrc", "ReplySrc"} ->
            add_ip_addr(and_then_src(bound_tuple(c, f)), fields)
      [] c \in {"OrigDst", "ReplyDst"} ->
            add_ip_addr(and_then_dst(bound_tuple(c, f)), fields)
      [] c \in {"OrigProtoNum", "ReplyProtoNum"} ->
            add_u8(map_u8_from(and_then_number(and_then_proto(bound_tuple(c, f)))), fields)
      [] c \in {"OrigProtoSrcPort", "ReplyProtoSrcPort"} ->
            add_u16(and_then_src_port(and_then_proto(bound_tuple(c, f))), fields)
      [] c \in {"OrigProtoDstPort", "ReplyProtoDstPort"} ->
            add_u16(and_then_dst_port(and_then_proto(bound_tuple(c, f))), fields)

RECURSIVE add_fields(_, _, _)
add_fields(cs, f, fields) ==
    IF cs = << >> THEN fields
    ELSE add_fields(Tail(cs), f, add_field(Head(cs), f, fields))

\* |flow| { let mut fields = Vec::new(); for c in all_variants() {..}; DataRow::Vec(fields) }
project(f) == add_fields(all_variants, f, << >>)

\* Store::fetch_schema: the column definitions, in the order of all_variants
column_defs == [i \in DOMAIN all_variants |-> def(all_variants[i])]

V4(a) == [fam |-> "V4", addr |-> a]
A1 == Ipv4Addr(127, 0, 0, 1)
A2 == Ipv4Addr(127, 0, 0, 2)

\* the flows a dump may hold: every level present or absent
ProtoTuples ==
    [number : {None, Some(IpProto_from_u8(6)), Some(IpProto_from_u8(17))},
     src_port : {None, Some(1)},
     dst_port : {None, Some(2)}]
IpTuples ==
    [src : {None, Some(V4(A1))},
     dst : {None, Some(V4(A2))},
     proto : {None} \cup {Some(p) : p \in ProtoTuples}]
Flows ==
    [id : {None, Some(5)},
     origin : {None} \cup {Some(t) : t \in IpTuples},
     reply : {None} \cup {Some(t) : t \in IpTuples}]

InitProject ==
    /\ flow \in {Some(f) : f \in Flows}
    /\ row = None
    /\ expr = None /\ calls = << >> /\ result = None
    /\ sql = << >> /\ parser_invoked = FALSE
    /\ pc = << >> /\ table_name = << >> /\ mutex = 0 /\ flows = << >>
    /\ rows = << >> /\ dump_calls = << >> /\ ret = << >>

Project ==
    /\ row = None
    /\ row' = Some(project(flow.val))
    /\ UNCHANGED <<flow, filter_vars, scan_vars>>

SpecProject == InitProject /\ [][Project]_vars

(***************************************************************************)
(* Claims about get_filter                                                 *)
(***************************************************************************)
DirectionalNames == CatalogNames \ {"id"}

\* the catalog's type of the column named id
TypeOfName(id) ==
    data_type(CHOOSE c \in {all_variants[i] : i \in DOMAIN all_variants} : name(c) = id)

\* a literal of the column's semantic type, in range
WellTyped(id, v) ==
    LET t == TypeOfName(id)
    IN  CASE t = "Inet" -> /\ v.v = "SingleQuotedString"
                           /\ Len(v.s) = 4
                           /\ \A i \in 1..4 : v.s[i] >= 0 /\ v.s[i] < 256
          [] t = "Uint8" -> v.v = "Number" /\ v.n >= 0 /\ v.n < 256
          [] t = "Uint16" -> v.v = "Number" /\ v.n >= 0 /\ v.n < 65536
          \* every number literal drawn here is below 2^32
          [] t = "Uint32" -> v.v = "Number" /\ v.n >= 0

\* the slot each directional column names
SlotOf(id) ==
    CASE id = "orig_ipv4_src" -> <<"orig", "ipv4_src">>
      [] id = "orig_ipv4_dst" -> <<"orig", "ipv4_dst">>
      [] id = "orig_l4_proto" -> <<"orig", "l4_proto">>
      [] id = "orig_l4_src_port" -> <<"orig", "l4_src_port">>
      [] id = "orig_l4_dst_port" -> <<"orig", "l4_dst_port">>
      [] id = "reply_ipv4_src" -> <<"reply", "ipv4_src">>
      [] id = "reply_ipv4_dst" -> <<"reply", "ipv4_dst">>
      [] id = "reply_l4_proto" -> <<"reply", "l4_proto">>
      [] id = "reply_l4_src_port" -> <<"reply", "l4_src_port">>
      [] id = "reply_l4_dst_port" -> <<"reply", "l4_dst_port">>

Dirs == {"orig", "reply"}
Fields == {"ipv4_src", "ipv4_dst", "l4_proto", "l4_src_port", "l4_dst_port"}

\* the conjuncts reachable from the root through AND nodes only, left to right
RECURSIVE Conjuncts(_)
Conjuncts(e) ==
    IF e.kind = "BinaryOp" /\ e.op = "And"
    THEN Conjuncts(e.left) \o Conjuncts(e.right)
    ELSE << e >>

IsColEq(e) ==
    /\ e.kind = "BinaryOp" /\ e.op = "Eq"
    /\ e.left.kind = "Identifier" /\ e.right.kind = "Value"

\* an AND-conjunction of well-typed equalities over the columns named in ns
PureAndEq(e, ns) ==
    \A i \in DOMAIN Conjuncts(e) :
        LET c == Conjuncts(e)[i]
        IN  IsColEq(c) /\ c.left.value \in ns /\ WellTyped(c.left.value, c.right.value)

EachColumnOnce(e) ==
    \A i, j \in DOMAIN Conjuncts(e) :
        i # j => Conjuncts(e)[i].left.value # Conjuncts(e)[j].left.value

\* the slot holds the literal: an address by its bits, a protocol by its number
Holds(slot, field, v) ==
    /\ slot.some
    /\ CASE field \in {"ipv4_src", "ipv4_dst"} ->
                slot.val = Ipv4Addr(v.s[1], v.s[2], v.s[3], v.s[4])
         [] field = "l4_proto" -> u8_from_IpProto(slot.val) = v.n
         [] OTHER -> slot.val = v.n

Compiled == result.some

\* C1: an AND-conjunction of well-typed equalities naming each directional column
\* at most once compiles to Ok with exactly the supplied literal in each named
\* column's slot of the matching direction, and every other slot unconstrained.
C1_ExactSlots ==
    (Compiled /\ PureAndEq(expr, DirectionalNames) /\ EachColumnOnce(expr)) =>
        /\ result.val.ok
        /\ \A d \in Dirs, f \in Fields :
              LET named == {i \in DOMAIN Conjuncts(expr) :
                                SlotOf(Conjuncts(expr)[i].left.value) = <<d, f>>}
                  slot == result.val.value[d][f]
              IN  IF named = {} THEN slot = None
                  ELSE \A i \in named : Holds(slot, f, Conjuncts(expr)[i].right.value)

C1_Witness ==
    /\ Compiled /\ PureAndEq(expr, DirectionalNames) /\ EachColumnOnce(expr)
    /\ Len(Conjuncts(expr)) = 3
    /\ \E i, j \in DOMAIN Conjuncts(expr) :
          /\ SlotOf(Conjuncts(expr)[i].left.value)[1] = "orig"
          /\ SlotOf(Conjuncts(expr)[j].left.value)[1] = "reply"

\* the expressions one commutation or one re-association of an AND away
RECURSIVE Rearranged(_)
Rearranged(e) ==
    IF e.kind = "BinaryOp" /\ e.op = "And"
    THEN {BinaryOp(e.right, "And", e.left)}
         \cup (IF e.left.kind = "BinaryOp" /\ e.left.op = "And"
               THEN {BinaryOp(e.left.left, "And", BinaryOp(e.left.right, "And", e.right))}
               ELSE {})
         \cup (IF e.right.kind = "BinaryOp" /\ e.right.op = "And"
               THEN {BinaryOp(BinaryOp(e.left, "And", e.right.left), "And", e.right.right)}
               ELSE {})
         \cup {BinaryOp(l, "And", e.right) : l \in Rearranged(e.left)}
         \cup {BinaryOp(e.left, "And", r) : r \in Rearranged(e.right)}
    ELSE {}

SameLiteralPerColumn(e) ==
    \A i, j \in DOMAIN Conjuncts(e) :
        Conjuncts(e)[i].left.value = Conjuncts(e)[j].left.value
            => Conjuncts(e)[i].right.value = Conjuncts(e)[j].right.value

\* C2 as stated: for AND-conjoined well-typed equalities over recognized columns,
\* a column named twice with different literals included, every reordering or
\* re-association of the conjuncts compiles to an equal filter.
C2_OrderIndependent ==
    (Compiled /\ PureAndEq(expr, CatalogNames)) =>
        \A e2 \in Rearranged(expr) : get_filter(e2) = result.val

\* C2 amended: the same, for expressions that give each column one literal only.
C2_OrderIndependentNoConflict ==
    (Compiled /\ PureAndEq(expr, CatalogNames) /\ SameLiteralPerColumn(expr)) =>
        \A e2 \in Rearranged(expr) : get_filter(e2) = result.val

C2_Witness ==
    /\ Compiled /\ PureAndEq(expr, CatalogNames) /\ SameLiteralPerColumn(expr)
    /\ Len(Conjuncts(expr)) = 3
    /\ result.val # Ok(Filter_default)
    /\ \E e2 \in Rearranged(expr) : Conjuncts(e2) # Conjuncts(expr)

\* a conjunct the compiler is said to ignore: a non-`=` operator (OR included), a
\* non-identifier left operand, an unrecognized column, a literal of the wrong
\* type or out of range for its column
Droppable(e) ==
    /\ e.kind = "BinaryOp" /\ e.op # "And"
    /\ \/ e.op # "Eq"
       \/ e.left.kind # "Identifier"
       \/ /\ e.right.kind = "Value"
          /\ \/ e.left.value \notin CatalogNames
             \/ /\ e.left.value \in DirectionalNames
                /\ ~WellTyped(e.left.value, e.right.value)

JoinAnd(l, r) ==
    IF ~l.some THEN r ELSE IF ~r.some THEN l ELSE Some(BinaryOp(l.val, "And", r.val))

\* the expressions with one droppable conjunct removed; None is the empty predicate
RECURSIVE Removed(_)
Removed(e) ==
    (IF Droppable(e) THEN {None} ELSE {})
    \cup (IF e.kind = "BinaryOp" /\ e.op = "And"
          THEN {JoinAnd(l, Some(e.right)) : l \in Removed(e.left)}
               \cup {JoinAnd(Some(e.left), r) : r \in Removed(e.right)}
          ELSE {})

\* C3: such a conjunct never fails the compilation, and the filter is the one of
\* the expression without it (the all-match filter when nothing is left).
C3_DroppedConjunct ==
    Compiled =>
        /\ result.val.ok
        /\ \A r \in Removed(expr) :
              result.val = (IF r.some THEN get_filter(r.val) ELSE Ok(Filter_default))

C3_Witness ==
    /\ Compiled
    /\ expr.kind = "BinaryOp" /\ expr.op = "And"
    /\ Droppable(expr.right)
    /\ IsColEq(expr.right) /\ expr.right.left.value = "orig_l4_proto"
    /\ result.val # Ok(Filter_default)

\* the conjuncts that are equalities over a column named in ns, with a well-typed literal
RoutedConjuncts(e, ns) ==
    SelectSeq(Conjuncts(e),
              LAMBDA c : IsColEq(c) /\ c.left.value \in ns
                         /\ WellTyped(c.left.value, c.right.value))

CallSlot(call) ==
    <<IF call.filter = "orig_filter" THEN "orig" ELSE "reply", call.set>>

\* no two arms of the dispatch share a column or a (direction, field) slot
DistinctSlots ==
    \A i, j \in DOMAIN arms :
        i # j => /\ arms[i].column # arms[j].column
                 /\ <<arms[i].filter, arms[i].set>> # <<arms[j].filter, arms[j].set>>

\* C10 as stated: no two columns share a slot, and each of the 11 catalog columns
\* in an AND-reachable well-typed equality is routed to exactly one setter call.
C10_EveryCatalogColumnRouted ==
    Compiled =>
        /\ DistinctSlots
        /\ Len(calls) = Len(RoutedConjuncts(expr, CatalogNames))

\* C10 amended: the ten directional columns are each routed to exactly one setter
\* call, on their own slot; `id` is routed to none.
C10_DirectionalColumnsRouted ==
    Compiled =>
        LET routed == RoutedConjuncts(expr, DirectionalNames)
        IN  /\ DistinctSlots
            /\ Len(calls) = Len(routed)
            /\ \A i \in DOMAIN routed : CallSlot(calls[i]) = SlotOf(routed[i].left.value)

C10_Witness ==
    /\ Compiled
    /\ Len(Conjuncts(expr)) = 3
    /\ Len(calls) = 2
    /\ \E i \in DOMAIN Conjuncts(expr) :
          IsColEq(Conjuncts(expr)[i]) /\ Conjuncts(expr)[i].left.value = "id"
    /\ \E i \in DOMAIN calls : calls[i].filter = "reply_filter"

\* the column of the row that identifier id names, 0 when there is none
ColumnIndex(id) ==
    IF id \in CatalogNames
    THEN CHOOSE i \in DOMAIN all_variants : name(all_variants[i]) = id
    ELSE 0

\* SQL comparison of a row cell with a literal: a null cell compares to nothing
CellEq(cell, v) ==
    CASE cell.t = "Null" -> FALSE
      [] cell.t = "Inet" ->
            /\ v.v = "SingleQuotedString" /\ parse_ipv4(v.s).some
            /\ cell.v = V4(parse_ipv4(v.s).val)
      [] OTHER -> v.v = "Number" /\ cell.v = v.n

CellGt(cell, v) ==
    CASE cell.t \in {"Null", "Inet"} -> FALSE
      [] OTHER -> v.v = "Number" /\ cell.v > v.n

\* whether the row satisfies the expression
RECURSIVE Satisfies(_, _)
Satisfies(r, e) ==
    CASE e.kind = "Nested" -> Satisfies(r, e.expr)
      [] e.kind = "BinaryOp" /\ e.op = "And" -> Satisfies(r, e.left) /\ Satisfies(r, e.right)
      [] e.kind = "BinaryOp" /\ e.op = "Or" -> Satisfies(r, e.left) \/ Satisfies(r, e.right)
      [] e.kind = "BinaryOp" /\ e.op \in {"Eq", "Gt"}
            /\ e.left.kind = "Identifier" /\ e.right.kind = "Value" ->
            /\ ColumnIndex(e.left.value) # 0
            /\ IF e.op = "Eq"
               THEN CellEq(r[ColumnIndex(e.left.value)], e.right.value)
               ELSE CellGt(r[ColumnIndex(e.left.value)], e.right.value)
      [] e.kind = "BinaryOp" /\ e.op = "Eq"
            /\ e.left.kind = "Identifier" /\ e.right.kind = "Identifier" ->
            /\ ColumnIndex(e.left.value) # 0 /\ ColumnIndex(e.right.value) # 0
            /\ r[ColumnIndex(e.left.value)].t # "Null"
            /\ r[ColumnIndex(e.left.value)] = r[ColumnIndex(e.right.value)]
      [] e.kind = "BinaryOp" /\ e.op = "Eq"
            /\ e.left.kind = "Value" /\ e.right.kind = "Identifier" ->
            /\ ColumnIndex(e.right.value) # 0
            /\ CellEq(r[ColumnIndex(e.right.value)], e.left.value)
      [] OTHER -> FALSE

\* whether a flow passes a directional filter: every constraint it carries is met
PassesDir(df, t) ==
    /\ df.ipv4_src.some => t.some /\ t.val.src = Some(V4(df.ipv4_src.val))
    /\ df.ipv4_dst.some => t.some /\ t.val.dst = Some(V4(df.ipv4_dst.val))
    /\ df.l4_proto.some =>
          t.some /\ t.val.proto.some /\ t.val.proto.val.number = df.l4_proto
    /\ df.l4_src_port.some =>
          t.some /\ t.val.proto.some /\ t.val.proto.val.src_port = df.l4_src_port
    /\ df.l4_dst_port.some =>
          t.some /\ t.val.proto.some /\ t.val.proto.val.dst_port = df.l4_dst_port

Passes(filter, f) == PassesDir(filter.orig, f.origin) /\ PassesDir(filter.reply, f.reply)

\* the flows the filters are tried on: each field takes one of two values that the
\* literals of the expressions name; any three of source address, protocol and
\* the two ports take every combination of their values
ApproxTuples ==
    {None} \cup
    {Some([src |-> Some(V4(IF a = 0 THEN A1 ELSE A2)), dst |-> Some(V4(A2)),
           proto |-> Some([number |-> Some(IpProto_from_u8(IF p = 0 THEN 6 ELSE 1)),
                           src_port |-> Some(1 + sp),
                           dst_port |-> Some(1 + ((a + p + sp) % 2))])]) :
        a \in {0, 1}, p \in {0, 1}, sp \in {0, 1}}

ApproxFlows ==
    [id : {Some(5)}, origin : ApproxTuples,
     reply : {t \in ApproxTuples : t.some => t.val.src = Some(V4(A1)) /\ t.val.proto.val.src_port = Some(1)}]

ApproxRows == {[flow |-> f, row |-> project(f)] : f \in ApproxFlows}

\* C4: a flow that satisfies the expression passes the compiled filter.
C4_OverApproximation ==
    Compiled =>
        /\ result.val.ok
        /\ \A fr \in ApproxRows :
              Passes(result.val.value, fr.flow) \/ ~Satisfies(fr.row, expr)

C4_Witness ==
    /\ Compiled
    /\ expr.kind = "BinaryOp" /\ expr.op = "And"
    /\ expr.left.kind = "BinaryOp" /\ expr.left.op = "Or"
    /\ result.val # Ok(Filter_default)
    /\ \E fr \in ApproxRows : Satisfies(fr.row, expr)
    /\ \E fr \in ApproxRows : ~Passes(result.val.value, fr.flow)

(***************************************************************************)
(* parse_filter (lib.rs)                                                   *)
(***************************************************************************)
MaxSqlLen == 3

Chars == {" ", "\n", "x"}

\* char::is_whitespace
is_whitespace(c) == c \in {" ", "\n"}

RECURSIVE trim_start(_)
trim_start(s) ==
    IF s # << >> /\ is_whitespace(Head(s)) THEN trim_start(Tail(s)) ELSE s

RECURSIVE trim_end(_)
trim_end(s) ==
    IF s # << >> /\ is_whitespace(s[Len(s)])
    THEN trim_end(SubSeq(s, 1, Len(s) - 1))
    ELSE s

\* variant of trim that leaves the text as it is
trim_none(s) == s

\* str::trim
trim(s) == trim_end(trim_start(s))

\* what Parser::new(..).try_with_sql(sql)?.parse_expr()? may return for a text
\* that is not blank: a parser error, or an expression
ParserResults ==
    {Err("Parser")}
    \cup {Ok(e) : e \in {TestExpr, Eq("id", N5),
                         BinaryOp(Eq("id", N5), "Or", Eq("orig_ipv4_src", S1))}}

RECURSIVE SeqsUpTo(_, _)
SeqsUpTo(S, n) ==
    IF n = 0 THEN {<< >>}
    ELSE SeqsUpTo(S, n - 1)
         \cup {Append(q, x) : q \in {r \in SeqsUpTo(S, n - 1) : Len(r) = n - 1}, x \in S}

InitParse ==
    /\ sql \in SeqsUpTo(Chars, MaxSqlLen)
    /\ expr = None
    /\ calls = << >>
    /\ result = None
    /\ parser_invoked = FALSE
    /\ flow = None /\ row = None
    /\ pc = << >> /\ table_name = << >> /\ mutex = 0 /\ flows = << >>
    /\ rows = << >> /\ dump_calls = << >> /\ ret = << >>

ParseFilter ==
    /\ result = None
    /\ IF trim(sql) = << >>
       THEN /\ result' = Some(Ok(Filter_default))
            /\ UNCHANGED <<expr, calls, parser_invoked>>
       ELSE /\ parser_invoked' = TRUE
            /\ \E parsed \in ParserResults :
                  IF parsed.ok
                  THEN /\ expr' = parsed.value
                       /\ calls' = process(parsed.value)
                       /\ result' = Some(get_filter(parsed.value))
                  ELSE /\ result' = Some(parsed)
                       /\ UNCHANGED <<expr, calls>>
    /\ UNCHANGED <<sql, project_vars, scan_vars>>

SpecParse == InitParse /\ [][ParseFilter]_vars

Blank(s) == \A i \in DOMAIN s : s[i] \in {" ", "\n"}

\* C5: parse_filter of the empty string or of whitespace only returns Ok with the
\* all-match filter, and the parser is not invoked.
C5_BlankIsAllMatch ==
    (result.some /\ Blank(sql)) =>
        /\ result.val = Ok(Filter_default)
        /\ ~parser_invoked

C5_Witness ==
    /\ result.some /\ Blank(sql)
    /\ Len(sql) >= 2
    /\ \E i, j \in DOMAIN sql : sql[i] = " " /\ sql[j] = "\n"

(***************************************************************************)
(* Store::fetch_schema and Store::scan_data on one shared Conntrack value  *)
(***************************************************************************)
NThreads == 2
MaxFlows == 2

Threads == 1..NThreads
NoThread == 0

CONNECTIONS_TABLE_NAME == "Connections"
TableNames == {CONNECTIONS_TABLE_NAME, "Other"}

\* the flows a dump returns: nothing present, and everything present
EmptyFlow == [id |-> None, origin |-> None, reply |-> None]
FullTuple(a, b, sp, dp) ==
    Some([src |-> Some(V4(a)), dst |-> Some(V4(b)),
          proto |-> Some([number |-> Some(IpProto_from_u8(6)),
                          src_port |-> Some(sp), dst_port |-> Some(dp)])])
FullFlow == [id |-> Some(5), origin |-> FullTuple(A1, A2, 1, 2), reply |-> FullTuple(A2, A1, 2, 1)]
DumpFlows == {EmptyFlow, FullFlow}

\* Schema { table_name, column_defs, indexes, engine }
Schema ==
    [table_name |-> CONNECTIONS_TABLE_NAME, column_defs |-> Some(column_defs),
     indexes |-> << >>, engine |-> None]

\* Error::Conntrack(e) shown as "conntrack failed", wrapped in GError::StorageMsg
StorageMsg == [kind |-> "StorageMsg", msg |-> "conntrack failed"]

InitScan ==
    /\ pc = [t \in Threads |-> "idle"]
    /\ table_name = [t \in Threads |-> CONNECTIONS_TABLE_NAME]
    /\ mutex = NoThread
    /\ flows = [t \in Threads |-> << >>]
    /\ rows = [t \in Threads |-> << >>]
    /\ dump_calls = [t \in Threads |-> 0]
    /\ ret = [t \in Threads |-> None]
    /\ expr = None /\ calls = << >> /\ result = None
    /\ sql = << >> /\ parser_invoked = FALSE
    /\ flow = None /\ row = None

\* fetch_schema(table_name): the assert_eq!, then Ok(Some(schema))
FetchSchema(t) ==
    /\ pc[t] = "idle"
    /\ \E n \in TableNames :
          /\ table_name' = [table_name EXCEPT ![t] = n]
          /\ IF n # CONNECTIONS_TABLE_NAME
             THEN /\ pc' = [pc EXCEPT ![t] = "panicked"]
                  /\ ret' = [ret EXCEPT ![t] = None]
             ELSE /\ pc' = [pc EXCEPT ![t] = "returned"]
                  /\ ret' = [ret EXCEPT ![t] = Some(Ok(Some(Schema)))]
    /\ rows' = [rows EXCEPT ![t] = << >>]
    /\ dump_calls' = [dump_calls EXCEPT ![t] = 0]
    /\ UNCHANGED <<mutex, flows, filter_vars, project_vars>>

\* scan_data(table_name) up to self.0.lock(): the assert_eq! of scan_data_inner
ScanData(t) ==
    /\ pc[t] = "idle"
    /\ \E n \in TableNames :
          /\ table_name' = [table_name EXCEPT ![t] = n]
          /\ IF n # CONNECTIONS_TABLE_NAME
             THEN /\ pc' = [pc EXCEPT ![t] = "panicked"]
                  /\ ret' = [ret EXCEPT ![t] = None]
             ELSE /\ pc' = [pc EXCEPT ![t] = "lock"]
                  /\ ret' = [ret EXCEPT ![t] = None]
    /\ rows' = [rows EXCEPT ![t] = << >>]
    /\ dump_calls' = [dump_calls EXCEPT ![t] = 0]
    /\ UNCHANGED <<mutex, flows, filter_vars, project_vars>>

\* Mutex::lock returns once no other caller holds the guard
may_lock(t) == mutex = NoThread

\* self.0.lock().unwrap()
Lock(t) ==
    /\ pc[t] = "lock"
    /\ may_lock(t)
    /\ mutex' = t
    /\ pc' = [pc EXCEPT ![t] = "dump"]
    /\ UNCHANGED <<table_name, flows, rows, dump_calls, ret, filter_vars, project_vars>>

\* variant of guard_after_block: the guard lives as long as the returned rows
guard_kept_by_rows(t, ok) == IF ok THEN t ELSE NoThread

\* variant of guard_after_block: the guard is not dropped when `?` returns
guard_kept_on_error(t, ok) == IF ok THEN NoThread ELSE t

\* the holder of the mutex once the block `let flows = { .. }` is left, with a
\* value or by `?`: the guard is a local of the block
guard_after_block(t, ok) == NoThread

\* conntrack.dump().map_err(..).map_err(..)?, the end of the block, and the
\* RowIter returned over the flows
Dump(t) ==
    /\ pc[t] = "dump"
    /\ dump_calls' = [dump_calls EXCEPT ![t] = @ + 1]
    /\ \/ /\ mutex' = guard_after_block(t, FALSE)
          /\ ret' = [ret EXCEPT ![t] = Some(Err(StorageMsg))]
          /\ pc' = [pc EXCEPT ![t] = "returned"]
          /\ UNCHANGED flows
       \/ \E fs \in SeqsUpTo(DumpFlows, MaxFlows) :
             /\ mutex' = guard_after_block(t, TRUE)
             /\ flows' = [flows EXCEPT ![t] = fs]
             /\ ret' = [ret EXCEPT ![t] = Some(Ok("RowIter"))]
             /\ pc' = [pc EXCEPT ![t] = "iter"]
    /\ UNCHANGED <<table_name, rows, filter_vars, project_vars>>

\* RowIter::next: the closure projects the next flow
NextRow(t) ==
    /\ pc[t] = "iter"
    /\ flows[t] # << >>
    /\ rows' = [rows EXCEPT ![t] = Append(@, Ok([key |-> "None", row |-> project(Head(flows[t]))]))]
    /\ flows' = [flows EXCEPT ![t] = Tail(@)]
    /\ UNCHANGED <<pc, table_name, mutex, dump_calls, ret, filter_vars, project_vars>>

\* RowIter::next at the end of the flows
EndRows(t) ==
    /\ pc[t] = "iter"
    /\ flows[t] = << >>
    /\ pc' = [pc EXCEPT ![t] = "returned"]
    /\ UNCHANGED <<table_name, mutex, flows, rows, dump_calls, ret, filter_vars, project_vars>>

\* the caller is done with what the call returned
Release(t) ==
    /\ pc[t] = "returned"
    /\ pc' = [pc EXCEPT ![t] = "idle"]
    /\ UNCHANGED <<table_name, mutex, flows, rows, dump_calls, ret, filter_vars, project_vars>>

NextScan ==
    \E t \in Threads :
        \/ FetchSchema(t)
        \/ ScanData(t)
        \/ Lock(t)
        \/ Dump(t)
        \/ NextRow(t)
        \/ EndRows(t)
        \/ Release(t)

SpecScan == InitScan /\ [][NextScan]_vars

(***************************************************************************)
(* Claims about the projection and the scan                                *)
(***************************************************************************)
\* the value on the path of the column named id: its own direction's tuple, then
\* the protocol info, then the field; None when a level is absent
PathValue(f, id) ==
    IF id = "id" THEN f.id
    ELSE LET t == IF SlotOf(id)[1] = "orig" THEN f.origin ELSE f.reply
             fld == SlotOf(id)[2]
         IN  IF ~t.some THEN None
             ELSE IF fld = "ipv4_src" THEN t.val.src
             ELSE IF fld = "ipv4_dst" THEN t.val.dst
             ELSE IF ~t.val.proto.some THEN None
             ELSE IF fld = "l4_proto" THEN t.val.proto.val.number
             ELSE IF fld = "l4_src_port" THEN t.val.proto.val.src_port
             ELSE t.val.proto.val.dst_port

CellType(dt) ==
    CASE dt = "Uint32" -> "U32"
      [] dt = "Inet" -> "Inet"
      [] dt = "Uint8" -> "U8"
      [] dt = "Uint16" -> "U16"

\* C6: the row has one value per column, in the order of the schema; a value is
\* null exactly when a level of its own column's path is absent, and is the
\* field's value (a protocol as its number) otherwise.
C6_ProjectionExact ==
    row.some =>
        /\ Len(row.val) = 11
        /\ Len(row.val) = Len(column_defs)
        /\ \A i \in DOMAIN column_defs :
              LET v == PathValue(flow.val, column_defs[i].name)
                  cell == row.val[i]
              IN  /\ (cell = Null) <=> ~v.some
                  /\ v.some =>
                        /\ cell.t = CellType(column_defs[i].data_type)
                        /\ IF cell.t = "U8"
                           THEN cell.v \in 0..255 /\ IpProto_from_u8(cell.v) = v.val
                           ELSE cell.v = v.val

C6_Witness ==
    /\ row.some
    /\ flow.val.reply = None
    /\ flow.val.origin.some /\ flow.val.origin.val.proto.some
    /\ flow.val.origin.val.proto.val.number = Some(IpProto_from_u8(6))
    /\ flow.val.origin.val.src = None
    /\ row.val[4] = U8(6)
    /\ row.val[9] = Null

\* C7: at most one caller is inside dump, the mutex is held exactly while a
\* caller is there, and never by a caller whose rows are being projected.
C7_MutexOnlyDuringDump ==
    /\ Cardinality({t \in Threads : pc[t] = "dump"}) <= 1
    /\ \A t \in Threads : (mutex = t) <=> (pc[t] = "dump")
    /\ \A t \in Threads : (pc[t] = "iter" \/ rows[t] # << >>) => mutex # t

C7_Witness ==
    \E t, u \in Threads :
        /\ t # u
        /\ pc[t] = "iter" /\ rows[t] # << >> /\ flows[t] # << >>
        /\ pc[u] = "dump" /\ mutex = u

\* C8: a call with another table name returns an error value, and does not panic.
C8_OtherTableIsError ==
    \A t \in Threads :
        table_name[t] # CONNECTIONS_TABLE_NAME =>
            /\ pc[t] # "panicked"
            /\ pc[t] = "returned" => ret[t].some /\ ~ret[t].val.ok

\* C9: a scan whose dump failed returned a storage error and no rows after one
\* dump call, and left the mutex free for the scans that follow.
C9_DumpFailure ==
    \A t \in Threads :
        (ret[t].some /\ ~ret[t].val.ok) =>
            /\ ret[t].val.error.kind = "StorageMsg"
            /\ rows[t] = << >>
            /\ dump_calls[t] = 1
            /\ mutex # t
            /\ \A u \in Threads :
                  (pc[u] = "lock" /\ \A w \in Threads : pc[w] # "dump") => ENABLED Lock(u)

C9_Witness ==
    \E t, u \in Threads :
        /\ t # u
        /\ ret[t].some /\ ~ret[t].val.ok /\ pc[t] = "returned"
        /\ pc[u] = "dump" /\ mutex = u
====
